---- MODULE Spec2Model ----
(***************************************************************************)
(* Model of the OPC UA data logger client (opc_ua_client.js): startup      *)
(* (connect / createSession), the two setInterval timers (data logger and  *)
(* keep-alive ping), the hourly CSV files, and the SIGINT handler.         *)
(*                                                                         *)
(* One action is one run-to-completion step of the Node.js event loop: a   *)
(* callback runs from its start to its first await, and from the           *)
(* completion of an awaited promise to the end of the callback.            *)
(***************************************************************************)
EXTENDS Integers, Sequences, FiniteSets

(* ----------------------------- bounds ---------------------------------- *)
MaxTicks == 3         \* timer ticks (logging and keep-alive) fired in one run
MaxHour == 1          \* hour boundaries the wall clock crosses in one run
MaxSigints == 2       \* SIGINT signals delivered in one run

(* ------------------------ program constants ---------------------------- *)
NumTags == 10
connectionStrategy == [maxRetry |-> 5, initialDelay |-> 2000, maxDelay |-> 10000]

\* a keep-alive interval as long as the session timeout
KeepAliveIntervalAtTimeout == 60 * 1000

\* const KEEP_ALIVE_INTERVAL = 15 * 1000;
KEEP_ALIVE_INTERVAL == 15 * 1000

\* maxInactiveSessionLifetime: 60 * 1000 of the server
maxInactiveSessionLifetime == 60 * 1000

\* Wall clock at process start, as in the example of getLogFilename's comment.
BaseTime == [year |-> 2025, month |-> 9, day |-> 1, hour |-> 22]

VARIABLES
  pc,               \* "connect", "createSession", "running", "exited"
  exitCode,         \* the exit code; -1: none (alive, or ended by a signal)
  exitCause,        \* "none", "startupCatch", "sigintHandler", "signal", "unhandledRejection"
  attempts,         \* connection attempts made by the pending client.connect
  delays,           \* delays it has waited between its attempts
  connected,        \* the client holds an open connection
  sigintHandler,    \* process.on("SIGINT", ...) has been executed
  logTimer,         \* the data logger setInterval is installed
  keepAliveTimer,   \* the keep-alive setInterval is installed
  now,              \* wall clock, in hours elapsed since BaseTime
  files,            \* file system: filename -> sequence of lines
  logTicks,         \* logging ticks fired so far
  logPending,       \* logging ticks suspended at `await session.read`
  logErrors,        \* errors caught by the logging tick's catch
  lateAppend,       \* a row was appended after the clock left the tick's hour
  pingTicks,        \* keep-alive ticks fired so far
  pingPending,      \* keep-alive ticks suspended at `await session.read`
  pingCounter,      \* the pingCounter variable
  pingErrors,       \* errors caught by the keep-alive tick's catch
  sigints,          \* SIGINT signals delivered
  disconnectCalls,  \* invocations of client.disconnect()
  disconnectPending,\* client.disconnect() promises not yet settled
  delivered,        \* what the last resolved batch read delivered (SpecFormat)
  sinceKeepAlive,   \* ms since the keep-alive timer was set or fired (SpecKeepAlive)
  idle              \* ms since the last request on the session (SpecKeepAlive)

vars == <<pc, exitCode, exitCause, attempts, delays, connected, sigintHandler,
          logTimer, keepAliveTimer, now, files, logTicks, logPending, logErrors,
          lateAppend, pingTicks, pingPending, pingCounter, pingErrors, sigints,
          disconnectCalls, disconnectPending, delivered, sinceKeepAlive, idle>>

startupVars == <<attempts, delays, connected>>
timerVars == <<sigintHandler, logTimer, keepAliveTimer>>
logVars == <<files, logTicks, logPending, logErrors, lateAppend>>
pingVars == <<pingTicks, pingPending, pingCounter, pingErrors>>
signalVars == <<sigints, disconnectCalls, disconnectPending>>
exitVars == <<pc, exitCode, exitCause>>
auxVars == <<delivered, sinceKeepAlive, idle>>

(* ------------------------- helper functions ---------------------------- *)
Min(a, b) == IF a < b THEN a ELSE b

\* n.toString().padStart(2, '0'), as the sequence of decimal digits
padStart2(n) == IF n < 10 THEN <<0, n>> ELSE <<n \div 10, n % 10>>

\* new Date() at clock reading t: the calendar fields of the local time
Date(t) ==
  LET h == BaseTime.hour + t
  IN  [year |-> BaseTime.year, month |-> BaseTime.month,
       day |-> BaseTime.day + (h \div 24), hour |-> h % 24]

\* `OPC_Log_${year}-${month}-${day}_${hour}.csv`
getLogFilename(t) ==
  LET d == Date(t)
  IN  <<d.year, padStart2(d.month), padStart2(d.day), padStart2(d.hour)>>

\* `${year}-${month}-${day} ${hour}:...` of the row timestamp (date and hour part)
formattedTimestamp(t) ==
  LET d == Date(t)
  IN  <<d.year, padStart2(d.month), padStart2(d.day), padStart2(d.hour)>>

\* The header line and a data line of a CSV file.  `tick` identifies the
\* logging tick that produced the row (0: a row left by an earlier run).
Header == [kind |-> "header", tick |-> 0, timestamp |-> <<>>, tagValues |-> <<>>]
Row(tick, ts, tagValues) ==
  [kind |-> "row", tick |-> tick, timestamp |-> ts, tagValues |-> tagValues]

(* ------------------------------ fs ------------------------------------- *)
existsSync(fs, filename) == filename \in DOMAIN fs

\* fs.writeFileSync(filename, data): creates or truncates the file
writeFileSync(fs, filename, line) ==
  [f \in DOMAIN fs \cup {filename} |-> IF f = filename THEN <<line>> ELSE fs[f]]

appendFileSyncTwice(fs, filename, line) ==
  [f \in DOMAIN fs \cup {filename} |->
     IF f = filename
       THEN (IF filename \in DOMAIN fs THEN fs[f] \o <<line, line>> ELSE <<line, line>>)
       ELSE fs[f]]

\* fs.appendFileSync(filename, data): creates the file when it is missing
appendFileSync(fs, filename, line) ==
  [f \in DOMAIN fs \cup {filename} |->
     IF f = filename
       THEN (IF filename \in DOMAIN fs THEN Append(fs[f], line) ELSE <<line>>)
       ELSE fs[f]]

ensureHeaderAppendsAlways(fs, filename) == appendFileSync(fs, filename, Header)

ensureHeaderOverwrites(fs, filename) == writeFileSync(fs, filename, Header)

ensureHeader(fs, filename) ==
  IF ~existsSync(fs, filename) THEN writeFileSync(fs, filename, Header) ELSE fs

(* ------------------------ values and formatting ------------------------ *)
\* A DataValue of the batch read.  hasValue: dv.value is truthy; isNumber:
\* dv.value.value is a number; num: that number in units of 10^-5.
DataValue(hasValue, isNumber, num) ==
  [hasValue |-> hasValue, isNumber |-> isNumber, num |-> num]

\* Number.prototype.toFixed(4): integer part and four decimal digits
toFixed4(num) ==
  LET r == (num + 5) \div 10
  IN  [text |-> "fixed4", int |-> r \div 10000, frac |-> r % 10000]

NA == [text |-> "N/A", int |-> 0, frac |-> 0]

\* dv.value ? dv.value.value.toFixed(4) : "N/A" throws a TypeError when
\* dv.value.value has no toFixed
formatThrows(dataValues) ==
  \E i \in DOMAIN dataValues : dataValues[i].hasValue /\ ~dataValues[i].isNumber

formatValues(dataValues) ==
  [i \in DOMAIN dataValues |->
     IF dataValues[i].hasValue THEN toFixed4(dataValues[i].num) ELSE NA]

\* Batch read results the session returns in this model
AllGood == [i \in 1..NumTags |-> DataValue(TRUE, TRUE, i * 1000000)]
Point3Missing == [AllGood EXCEPT ![3] = DataValue(FALSE, FALSE, 0)]
Point3NullVariant == [AllGood EXCEPT ![3] = DataValue(TRUE, FALSE, 0)]
BatchResults == {AllGood, Point3Missing, Point3NullVariant}

\* The wider set of results used to exercise Steps E-F alone: any single
\* point without a value, or with a value that is no number, and results
\* with one DataValue fewer or more than nodes requested.
PointMissing(i) == [AllGood EXCEPT ![i] = DataValue(FALSE, FALSE, 0)]
PointNullVariant(i) == [AllGood EXCEPT ![i] = DataValue(TRUE, FALSE, 0)]
ShortResult == SubSeq(AllGood, 1, NumTags - 1)
LongResult == Append(AllGood, DataValue(TRUE, TRUE, 0))
AllBatchResults ==
  {AllGood, ShortResult, LongResult}
    \cup {PointMissing(i) : i \in 1..NumTags}
    \cup {PointNullVariant(i) : i \in 1..NumTags}

(* ------------------------------- Init ---------------------------------- *)
\* A row left in the current hour's file by an earlier run of the program
OldRow == Row(0, formattedTimestamp(0), formatValues(AllGood))

\* The directory at process start: empty, or holding the current hour's file
InitialFiles == {<<>>, [f \in {getLogFilename(0)} |-> <<Header, OldRow>>]}

Init ==
  /\ pc = "connect"
  /\ exitCode = -1
  /\ exitCause = "none"
  /\ attempts = 0
  /\ delays = <<>>
  /\ connected = FALSE
  /\ sigintHandler = FALSE
  /\ logTimer = FALSE
  /\ keepAliveTimer = FALSE
  /\ now = 0
  /\ files \in InitialFiles
  /\ logTicks = 0
  /\ logPending = {}
  /\ logErrors = 0
  /\ lateAppend = FALSE
  /\ pingTicks = 0
  /\ pingPending = 0
  /\ pingCounter = 0
  /\ pingErrors = 0
  /\ sigints = 0
  /\ disconnectCalls = 0
  /\ disconnectPending = 0
  /\ delivered = [dataValues |-> <<>>, appendOk |-> TRUE]
  /\ sinceKeepAlive = 0
  /\ idle = 0

(* ------------------------------ startup -------------------------------- *)
\* Delay before retry number k (k = 1 is the first retry): grows from
\* initialDelay towards the ceiling maxDelay.
backoffDelay(k) ==
  LET RECURSIVE grow(_)
      grow(j) == IF j <= 1 THEN connectionStrategy.initialDelay
                 ELSE Min(2 * grow(j - 1), connectionStrategy.maxDelay)
  IN  grow(k)

\* process.exit(code), reached from `cause`
processExit(code, cause) ==
  /\ pc' = "exited"
  /\ exitCode' = code
  /\ exitCause' = cause

StartupCatchExitsZero == processExit(0, "startupCatch")

\* catch (err) { console.error(...); process.exit(1); }
StartupCatch == processExit(1, "startupCatch")

\* await client.connect(endpointUrl) resolves; the call's retry state is gone
ConnectOk ==
  /\ pc = "connect"
  /\ attempts' = 0
  /\ delays' = <<>>
  /\ connected' = TRUE
  /\ pc' = "createSession"
  /\ UNCHANGED <<exitCode, exitCause, timerVars, now, logVars, pingVars,
                 signalVars>>
  /\ UNCHANGED auxVars

\* one connection attempt fails and the connection strategy schedules a retry
ConnectRetry ==
  /\ pc = "connect"
  /\ attempts + 1 < connectionStrategy.maxRetry
  /\ attempts' = attempts + 1
  /\ delays' = Append(delays, backoffDelay(attempts + 1))
  /\ UNCHANGED <<exitVars, connected, timerVars, now, logVars, pingVars, signalVars>>
  /\ UNCHANGED auxVars

\* the last attempt the strategy allows fails: client.connect rejects
ConnectExhausted ==
  /\ pc = "connect"
  /\ attempts + 1 = connectionStrategy.maxRetry
  /\ attempts' = attempts + 1
  /\ StartupCatch
  /\ UNCHANGED <<delays, connected, timerVars, now, logVars, pingVars, signalVars>>
  /\ UNCHANGED auxVars

\* await client.createSession() resolves; both setInterval calls run, the try
\* block ends and process.on("SIGINT", ...) registers the handler
CreateSessionOk ==
  /\ pc = "createSession"
  /\ pc' = "running"
  /\ logTimer' = TRUE
  /\ keepAliveTimer' = TRUE
  /\ sigintHandler' = TRUE
  /\ UNCHANGED <<exitCode, exitCause, startupVars, now, logVars, pingVars, signalVars>>
  /\ UNCHANGED auxVars

\* await client.createSession() rejects
CreateSessionFail ==
  /\ pc = "createSession"
  /\ StartupCatch
  /\ UNCHANGED <<startupVars, timerVars, now, logVars, pingVars, signalVars>>
  /\ UNCHANGED auxVars

(* ------------------------------- clock --------------------------------- *)
\* the wall clock crosses an hour boundary
ClockAdvance ==
  /\ pc # "exited"
  /\ now < MaxHour
  /\ now' = now + 1
  /\ UNCHANGED <<exitVars, startupVars, timerVars, logVars, pingVars, signalVars>>
  /\ UNCHANGED auxVars

(* --------------------------- data logger ------------------------------- *)
LogCatchRethrows ==
  /\ logErrors' = logErrors + 1
  /\ processExit(1, "unhandledRejection")

\* The catch of the logging tick: the error is logged, nothing else happens.
LogCatch ==
  /\ logErrors' = logErrors + 1
  /\ UNCHANGED exitVars

appendTargetAtWriteTime(tick, t) == getLogFilename(t)

\* File the row of a tick is appended to: the `filename` constant of the
\* tick, resolved at Step A.
appendTarget(tick, t) == tick.filename

\* The logging callback up to `await session.read(nodesToRead)`: Step A
\* (getLogFilename, ensureHeader), Step B (timestamps; the clock may cross an
\* hour boundary between the two readings), Steps C-D.
loggingCallback ==
  LET filename == getLogFilename(now)
  IN  \E fsOk \in BOOLEAN, adv \in 0..1 :
        /\ now + adv <= MaxHour
        /\ IF ~fsOk
             THEN \* fs.writeFileSync throws
                  /\ ~existsSync(files, filename)
                  /\ adv = 0
                  /\ LogCatch
                  /\ UNCHANGED <<now, files, logPending, lateAppend>>
             ELSE /\ files' = ensureHeader(files, filename)
                  /\ now' = now + adv
                  /\ logPending' = logPending \cup
                       {[tick |-> logTicks + 1, filename |-> filename,
                         timestamp |-> formattedTimestamp(now + adv)]}
                  /\ UNCHANGED <<logErrors, lateAppend, exitVars>>

LogTickSkipsWhenBusy ==
  /\ pc = "running"
  /\ logTimer
  /\ logTicks + pingTicks < MaxTicks
  /\ logTicks' = logTicks + 1
  /\ IF logPending = {}
       THEN loggingCallback
       ELSE UNCHANGED <<now, files, logPending, logErrors, lateAppend, exitVars>>
  /\ UNCHANGED <<startupVars, timerVars, pingVars, signalVars>>
  /\ UNCHANGED auxVars

\* The logging timer fires: setInterval runs the callback at every cadence
\* boundary, whatever earlier ticks are doing.
LogTick ==
  /\ pc = "running"
  /\ logTimer
  /\ logTicks + pingTicks < MaxTicks
  /\ logTicks' = logTicks + 1
  /\ loggingCallback
  /\ UNCHANGED <<startupVars, timerVars, pingVars, signalVars>>
  /\ UNCHANGED auxVars

loggingCallbackResumedStampsAtWrite(tick, dataValues, appendOk) ==
  /\ logPending' = logPending \ {tick}
  /\ IF formatThrows(dataValues) \/ ~appendOk
       THEN /\ LogCatch
            /\ UNCHANGED <<files, lateAppend>>
       ELSE /\ files' = appendFileSync(files, appendTarget(tick, now),
                           Row(tick.tick, formattedTimestamp(now),
                               formatValues(dataValues)))
            /\ lateAppend' = (lateAppend \/ getLogFilename(now) # tick.filename)
            /\ UNCHANGED <<exitVars, logErrors>>

\* The logging callback of `tick` after `await session.read` has resolved
\* with dataValues: Step E (format) and Step F (append the CSV line;
\* appendOk: fs.appendFileSync does not throw)
loggingCallbackResumed(tick, dataValues, appendOk) ==
  /\ logPending' = logPending \ {tick}
  /\ IF formatThrows(dataValues) \/ ~appendOk
       THEN /\ LogCatch
            /\ UNCHANGED <<files, lateAppend>>
       ELSE /\ files' = appendFileSync(files, appendTarget(tick, now),
                           Row(tick.tick, tick.timestamp,
                               formatValues(dataValues)))
            /\ lateAppend' = (lateAppend \/ getLogFilename(now) # tick.filename)
            /\ UNCHANGED <<exitVars, logErrors>>

\* session.read resolves
LogReadDone ==
  /\ pc = "running"
  /\ \E tick \in logPending, dataValues \in BatchResults, appendOk \in BOOLEAN :
       loggingCallbackResumed(tick, dataValues, appendOk)
  /\ UNCHANGED <<startupVars, timerVars, now, logTicks, pingVars, signalVars>>
  /\ UNCHANGED auxVars

\* session.read rejects
LogReadFail ==
  /\ pc = "running"
  /\ \E tick \in logPending :
       /\ logPending' = logPending \ {tick}
       /\ LogCatch
  /\ UNCHANGED <<startupVars, timerVars, now, files, logTicks, lateAppend, pingVars,
                 signalVars>>
  /\ UNCHANGED auxVars

(* ----------------------------- keep-alive ------------------------------ *)
\* The catch of the keep-alive tick: the failure is logged.
KeepAliveCatch ==
  /\ pingErrors' = pingErrors + 1
  /\ UNCHANGED exitVars

KeepAliveTickSkipsWhenBusy ==
  /\ pc = "running"
  /\ keepAliveTimer
  /\ logTicks + pingTicks < MaxTicks
  /\ pingTicks' = pingTicks + 1
  /\ pingPending' = IF pingPending = 0 THEN 1 ELSE pingPending
  /\ UNCHANGED <<exitVars, startupVars, timerVars, now, logVars, pingCounter,
                 pingErrors, signalVars>>
  /\ UNCHANGED auxVars

\* The keep-alive timer fires: the callback runs up to `await session.read`
KeepAliveTick ==
  /\ pc = "running"
  /\ keepAliveTimer
  /\ logTicks + pingTicks < MaxTicks
  /\ pingTicks' = pingTicks + 1
  /\ pingPending' = pingPending + 1
  /\ UNCHANGED <<exitVars, startupVars, timerVars, now, logVars, pingCounter,
                 pingErrors, signalVars>>
  /\ UNCHANGED auxVars

KeepAliveDoneWritesLog ==
  /\ pc = "running"
  /\ pingPending > 0
  /\ pingPending' = pingPending - 1
  /\ pingCounter' = pingCounter + 1
  /\ files' = appendFileSync(files, getLogFilename(now),
                             Row(0, formattedTimestamp(now), <<>>))
  /\ UNCHANGED <<exitVars, startupVars, timerVars, now, logTicks, logPending,
                 logErrors, lateAppend, pingTicks, pingErrors, signalVars>>
  /\ UNCHANGED auxVars

\* the keep-alive read resolves: pingCounter++
KeepAliveDone ==
  /\ pc = "running"
  /\ pingPending > 0
  /\ pingPending' = pingPending - 1
  /\ pingCounter' = pingCounter + 1
  /\ UNCHANGED <<exitVars, startupVars, timerVars, now, logVars, pingTicks,
                 pingErrors, signalVars>>
  /\ UNCHANGED auxVars

KeepAliveFailCounts ==
  /\ pc = "running"
  /\ pingPending > 0
  /\ pingPending' = pingPending - 1
  /\ pingCounter' = pingCounter + 1
  /\ KeepAliveCatch
  /\ UNCHANGED <<startupVars, timerVars, now, logVars, pingTicks, signalVars>>
  /\ UNCHANGED auxVars

\* the keep-alive read rejects
KeepAliveFail ==
  /\ pc = "running"
  /\ pingPending > 0
  /\ pingPending' = pingPending - 1
  /\ KeepAliveCatch
  /\ UNCHANGED <<startupVars, timerVars, now, logVars, pingTicks, pingCounter,
                 signalVars>>
  /\ UNCHANGED auxVars

(* ------------------------------ shutdown ------------------------------- *)
SigintClearsTimers ==
  /\ pc # "exited"
  /\ sigints < MaxSigints
  /\ sigints' = sigints + 1
  /\ IF sigintHandler
       THEN /\ disconnectCalls' = disconnectCalls + 1
            /\ disconnectPending' = disconnectPending + 1
            /\ logTimer' = FALSE
            /\ keepAliveTimer' = FALSE
            /\ UNCHANGED <<exitVars, sigintHandler>>
       ELSE /\ processExit(-1, "signal")
            /\ UNCHANGED <<disconnectCalls, disconnectPending, timerVars>>
  /\ UNCHANGED <<startupVars, now, logVars, pingVars>>
  /\ UNCHANGED auxVars

SigintWaitsForTicks ==
  /\ pc # "exited"
  /\ sigints < MaxSigints
  /\ sigints' = sigints + 1
  /\ IF sigintHandler
       THEN /\ IF logPending = {} /\ pingPending = 0
                 THEN /\ disconnectCalls' = disconnectCalls + 1
                      /\ disconnectPending' = disconnectPending + 1
                 ELSE UNCHANGED <<disconnectCalls, disconnectPending>>
            /\ UNCHANGED exitVars
       ELSE /\ processExit(-1, "signal")
            /\ UNCHANGED <<disconnectCalls, disconnectPending>>
  /\ UNCHANGED <<startupVars, timerVars, now, logVars, pingVars>>
  /\ UNCHANGED auxVars

\* A SIGINT is delivered.  With the handler registered, its body runs up to
\* `await client.disconnect()`; without it the signal terminates the process.
Sigint ==
  /\ pc # "exited"
  /\ sigints < MaxSigints
  /\ sigints' = sigints + 1
  /\ IF sigintHandler
       THEN /\ disconnectCalls' = disconnectCalls + 1
            /\ disconnectPending' = disconnectPending + 1
            /\ UNCHANGED exitVars
       ELSE /\ processExit(-1, "signal")
            /\ UNCHANGED <<disconnectCalls, disconnectPending>>
  /\ UNCHANGED <<startupVars, timerVars, now, logVars, pingVars>>
  /\ UNCHANGED auxVars

\* client.disconnect() resolves: "Client disconnected.", process.exit(0)
DisconnectDone ==
  /\ pc = "running"
  /\ disconnectPending > 0
  /\ disconnectPending' = disconnectPending - 1
  /\ connected' = FALSE
  /\ processExit(0, "sigintHandler")
  /\ UNCHANGED <<attempts, delays, timerVars, now, logVars, pingVars, sigints,
                 disconnectCalls>>
  /\ UNCHANGED auxVars

\* client.disconnect() rejects: the handler has no catch, the rejection is
\* unhandled, and Node.js (16.x or higher, as the README asks for) ends the
\* process with code 1.
DisconnectFail ==
  /\ pc = "running"
  /\ disconnectPending > 0
  /\ disconnectPending' = disconnectPending - 1
  /\ processExit(1, "unhandledRejection")
  /\ UNCHANGED <<startupVars, timerVars, now, logVars, pingVars, sigints,
                 disconnectCalls>>
  /\ UNCHANGED auxVars

(* ------------------------------- Next ---------------------------------- *)
Next ==
  \/ ConnectOk
  \/ ConnectRetry
  \/ ConnectExhausted
  \/ CreateSessionOk
  \/ CreateSessionFail
  \/ ClockAdvance
  \/ LogTick
  \/ LogReadDone
  \/ LogReadFail
  \/ KeepAliveTick
  \/ KeepAliveDone
  \/ KeepAliveFail
  \/ Sigint
  \/ DisconnectDone
  \/ DisconnectFail

Spec == Init /\ [][Next]_vars

(* ------------------- Steps E-F on any batch result --------------------- *)
\* The first logging tick of a run
FormatTick ==
  /\ logTicks = 0
  /\ LogTick

\* Its session.read resolves with any result of AllBatchResults; `delivered`
\* keeps what was delivered.
FormatReadDone ==
  /\ pc = "running"
  /\ \E tick \in logPending, dataValues \in AllBatchResults, appendOk \in BOOLEAN :
       /\ loggingCallbackResumed(tick, dataValues, appendOk)
       /\ delivered' = [dataValues |-> dataValues, appendOk |-> appendOk]
  /\ UNCHANGED <<startupVars, timerVars, now, logTicks, pingVars, signalVars,
                 sinceKeepAlive, idle>>

NextFormat ==
  \/ ConnectOk
  \/ CreateSessionOk
  \/ ClockAdvance
  \/ FormatTick
  \/ FormatReadDone

SpecFormat == Init /\ [][NextFormat]_vars

(* ----------------------- keep-alive against time ----------------------- *)
\* Granularity of time in SpecKeepAlive
TimeStep == KEEP_ALIVE_INTERVAL \div 3

\* Time passes while the session is in use.  setInterval runs the callback
\* when the interval has elapsed, so time does not pass beyond that moment
\* before the keep-alive timer has fired.
TimePasses ==
  /\ pc = "running"
  /\ keepAliveTimer
  /\ sinceKeepAlive + TimeStep <= KEEP_ALIVE_INTERVAL
  /\ sinceKeepAlive' = sinceKeepAlive + TimeStep
  /\ idle' = idle + TimeStep
  /\ UNCHANGED <<exitVars, startupVars, timerVars, now, logVars, pingVars,
                 signalVars, delivered>>

\* The keep-alive timer fires KEEP_ALIVE_INTERVAL after it was set or last
\* fired: the callback issues its read on the session.
KeepAliveTimerFires ==
  /\ pc = "running"
  /\ keepAliveTimer
  /\ sinceKeepAlive = KEEP_ALIVE_INTERVAL
  /\ logTicks + pingTicks < MaxTicks
  /\ pingTicks' = pingTicks + 1
  /\ pingPending' = pingPending + 1
  /\ sinceKeepAlive' = 0
  /\ idle' = 0
  /\ UNCHANGED <<exitVars, startupVars, timerVars, now, logVars, pingCounter,
                 pingErrors, signalVars, delivered>>

NextKeepAlive ==
  \/ ConnectOk
  \/ CreateSessionOk
  \/ TimePasses
  \/ KeepAliveTimerFires
  \/ KeepAliveDone
  \/ Sigint
  \/ DisconnectDone

SpecKeepAlive == Init /\ [][NextKeepAlive]_vars

(* ------------------------------ claims --------------------------------- *)
HasRow(fs, f, id) ==
  \E i \in DOMAIN fs[f] : fs[f][i].kind = "row" /\ fs[f][i].tick = id

\* logging ticks of this run whose row is in some file
RowsWritten ==
  Cardinality({id \in 1..logTicks : \E f \in DOMAIN files : HasRow(files, f, id)})

\* C1 as stated: at most one read of each task is pending at any time.
C1_AtMostOneInFlight == Cardinality(logPending) <= 1 /\ pingPending <= 1

\* C1, amended: every cadence boundary starts a tick, whatever earlier ticks
\* are doing: no tick is skipped, so every tick fired so far is pending, has
\* failed or has completed, and several reads of one task can be pending.
C1_NoTickSkipped ==
  /\ logTicks = Cardinality(logPending) + logErrors + RowsWritten
  /\ pingTicks = pingPending + pingErrors + pingCounter

C1_Witness == Cardinality(logPending) >= 2 /\ pingPending >= 1

\* C2: every file that exists has the header as its first line and nowhere else.
C2_HeaderExactlyOnce ==
  \A f \in DOMAIN files :
    /\ Len(files[f]) >= 1
    /\ files[f][1] = Header
    /\ \A i \in 2..Len(files[f]) : files[f][i] # Header

\* two overlapping ticks of one bucket have both appended (the later tick first)
C2_Witness ==
  \E f \in DOMAIN files : \E i, j \in DOMAIN files[f] :
    /\ i < j
    /\ files[f][j].kind = "row"
    /\ files[f][j].tick > 0
    /\ files[f][i].tick > files[f][j].tick

\* C3: a step in which a tick's error is caught leaves the process running
\* with both timers installed and does not touch the other task; and while
\* the process runs, both timers can fire.
C3_ErrorsIsolated ==
  /\ [](pc = "running" =>
          /\ logTimer /\ keepAliveTimer
          /\ (logTicks + pingTicks < MaxTicks =>
                ENABLED LogTick /\ ENABLED KeepAliveTick))
  /\ [][(logErrors' > logErrors \/ pingErrors' > pingErrors) =>
          /\ pc' = "running" /\ exitCode' = -1
          /\ logTimer' /\ keepAliveTimer'
          /\ (logErrors' > logErrors => UNCHANGED pingVars)
          /\ (pingErrors' > pingErrors => UNCHANGED logVars)]_vars

C3_Witness ==
  /\ pc = "running"
  /\ logErrors >= 1
  /\ pingErrors >= 1
  /\ logPending # {}

\* C4 as stated: no tick begins once a SIGINT has been received.
C4_NoTickAfterSigint ==
  [][sigints > 0 => logTicks' = logTicks /\ pingTicks' = pingTicks]_vars

\* C4, amended: the SIGINT handler cancels no timer; ticks keep beginning
\* while the disconnect is pending and stop only when the process exits.
C4_TimersEndAtExit ==
  [][/\ (logTimer => logTimer')
     /\ (keepAliveTimer => keepAliveTimer')
     /\ (pc = "exited" => logTicks' = logTicks /\ pingTicks' = pingTicks)]_vars

C4_Witness ==
  /\ disconnectPending > 0
  /\ ENABLED LogTick
  /\ ENABLED KeepAliveTick

\* C5 as stated: no disconnect is started, and the process has not exited,
\* while a logging or keep-alive read is pending.
C5_InFlightTickFinishes ==
  (disconnectPending > 0 \/ exitCause = "sigintHandler") =>
    logPending = {} /\ pingPending = 0

\* C5, amended: the handler calls disconnect at once, pending reads or not,
\* and leaves them alone; the exit that follows appends nothing, so a tick
\* still in flight at the exit is abandoned.
C5_DisconnectDoesNotWait ==
  [][/\ (sigints' > sigints /\ sigintHandler =>
           /\ disconnectCalls' = disconnectCalls + 1
           /\ logPending' = logPending
           /\ pingPending' = pingPending)
     /\ (pc' = "exited" => files' = files /\ logPending' = logPending)]_vars

C5_Witness ==
  /\ pc = "exited"
  /\ exitCause = "sigintHandler"
  /\ logPending # {}

\* C6: client.disconnect is invoked at most once, whatever signals arrive.
C6_DisconnectOnce == disconnectCalls <= 1

\* C7: a process that has exited has invoked the disconnect and has no
\* connection left open.
C7_DisconnectBeforeExit ==
  pc = "exited" => disconnectCalls >= 1 /\ ~connected

\* C8: when every connection attempt fails, the catch is reached after exactly
\* 5 attempts, the delays between them never decrease and never exceed 10000,
\* the exit code is 1, and no tick has run and no file was created or written.
C8_StartupFailure ==
  /\ (pc \in {"connect", "createSession"} =>
        /\ logTicks = 0 /\ pingTicks = 0
        /\ ~logTimer /\ ~keepAliveTimer
        /\ files \in InitialFiles)
  /\ (exitCause = "startupCatch" =>
        /\ exitCode = 1
        /\ logTicks = 0 /\ pingTicks = 0
        /\ files \in InitialFiles)
  /\ (exitCause = "startupCatch" /\ ~connected =>
        /\ attempts = 5
        /\ Len(delays) = 4
        /\ \A i \in DOMAIN delays :
             /\ delays[i] <= 10000
             /\ (i > 1 => delays[i - 1] <= delays[i]))

C8_Witness ==
  /\ exitCause = "startupCatch"
  /\ ~connected
  /\ attempts = 5
  /\ delays = <<2000, 4000, 8000, 10000>>

\* C9: a process that exits after a handled SIGINT exits with code 0.
C9_ExitCodeKept ==
  (pc = "exited" /\ sigintHandler /\ sigints > 0) => exitCode = 0

\* C10: the row of a tick is appended to the file resolved at the tick's
\* start, the file whose header the tick has ensured.
C10_BucketAtTickStart ==
  /\ [](\A tick \in logPending : existsSync(files, tick.filename))
  /\ [][\A tick \in logPending : \A f \in DOMAIN files' :
          HasRow(files', f, tick.tick) => f = tick.filename]_vars

\* a row went to the hour-22 file while the clock showed hour 23
C10_Witness ==
  /\ lateAppend
  /\ now = 1
  /\ \E f \in DOMAIN files : f = getLogFilename(0) /\ \E id \in 1..logTicks : HasRow(files, f, id)
  /\ ~existsSync(files, getLogFilename(1))

\* C11 as stated: once the file of hour H+1 exists, the file of hour H is
\* never written again.
C11_OldFileClosed ==
  [][\A t \in 0..(MaxHour - 1) :
       (existsSync(files, getLogFilename(t)) /\ existsSync(files, getLogFilename(t + 1)))
         => files'[getLogFilename(t)] = files[getLogFilename(t)]]_vars

\* positions (file, line) that hold the row of logging tick id
RowPlaces(fs, id) ==
  {p \in UNION {{<<f, i>> : i \in DOMAIN fs[f]} : f \in DOMAIN fs} :
     fs[p[1]][p[2]].kind = "row" /\ fs[p[1]][p[2]].tick = id}

\* C11, amended: a file is written only by a tick that resolved that file at
\* its start, so no tick that starts after the hour has changed writes to the
\* old file, while a tick of hour H still in flight may append to the old
\* file after the file of hour H+1 was created; every row is in one file
\* only and every file has its own header.
C11_WritesByOwnTicks ==
  /\ [](\A id \in 1..logTicks : Cardinality(RowPlaces(files, id)) <= 1)
  /\ [](\A f \in DOMAIN files : files[f][1] = Header)
  /\ [][\A f \in DOMAIN files :
          files'[f] # files[f] =>
            \E tick \in logPending \ logPending' :
              /\ tick.filename = f
              /\ files'[f] = Append(files[f], files'[f][Len(files'[f])])
              /\ files'[f][Len(files'[f])].tick = tick.tick]_vars

\* a tick of hour 22 is still in flight and the hour-23 file already has a row
C11_Witness ==
  /\ \E tick \in logPending : tick.filename = getLogFilename(0)
  /\ existsSync(files, getLogFilename(1))
  /\ \E id \in 1..logTicks : HasRow(files, getLogFilename(1), id)

\* C12: every row has one tag field per configured point (10), and field i
\* is the formatted result of point i of the delivered result.
C12_RowFieldCount ==
  \A f \in DOMAIN files : \A i \in DOMAIN files[f] :
    (files[f][i].kind = "row" /\ files[f][i].tick > 0) =>
      /\ Len(files[f][i].tagValues) = 10
      /\ \A k \in 1..10 :
           /\ k \in DOMAIN delivered.dataValues
           /\ files[f][i].tagValues[k] =
                (IF delivered.dataValues[k].hasValue
                   THEN toFixed4(delivered.dataValues[k].num) ELSE NA)

\* the points of a batch result that carry no number
FailedPoints(dataValues) ==
  {k \in DOMAIN dataValues : ~(dataValues[k].hasValue /\ dataValues[k].isNumber)}

\* C13: when the delivered result (one DataValue per point) has failed for
\* one point only and the file can be written, the tick has appended a row
\* with N/A at that point's column and a formatted number at every other.
C13_OnePointFailed ==
  ( /\ Len(delivered.dataValues) = NumTags
    /\ delivered.appendOk
    /\ Cardinality(FailedPoints(delivered.dataValues)) = 1 ) =>
      \E f \in DOMAIN files : \E i \in DOMAIN files[f] :
        /\ files[f][i].kind = "row"
        /\ files[f][i].tick = 1
        /\ \A k \in 1..NumTags :
             (files[f][i].tagValues[k] = NA) <=> (k \in FailedPoints(delivered.dataValues))

\* C14: pingCounter never decreases; it grows by exactly 1 in a step that
\* completes a keep-alive read without error and in no other step (not when
\* a ping fails, not in a logging tick); a failed ping starts no reconnection;
\* so it equals the keep-alive reads fired that are neither pending nor failed.
C14_PingCounter ==
  /\ [](pingCounter = pingTicks - pingPending - pingErrors)
  /\ [][/\ pingCounter' >= pingCounter
        /\ (pingCounter' # pingCounter =>
              /\ pingCounter' = pingCounter + 1
              /\ pingPending' = pingPending - 1
              /\ pingErrors' = pingErrors
              /\ UNCHANGED logVars)
        /\ (pingErrors' # pingErrors =>
              /\ pingCounter' = pingCounter
              /\ UNCHANGED <<startupVars, pc, disconnectCalls>>)]_vars

\* a ping has failed, another has succeeded, and the counter shows one
C14_Witness ==
  /\ pingErrors = 1
  /\ pingCounter = 1
  /\ pingPending = 1

\* C15: a step of the keep-alive task leaves every file as it is, and a step
\* that creates or writes a file is a step of a logging tick.
C15_KeepAliveWritesNothing ==
  [][/\ (pingVars' # pingVars => files' = files)
     /\ (files' # files =>
           logTicks' = logTicks + 1 \/ logPending' # logPending)]_vars

\* pings have succeeded and failed beside a logging tick that wrote its row
C15_Witness ==
  /\ pingCounter >= 1
  /\ pingErrors >= 1
  /\ RowsWritten >= 1

IsPrefix(a, b) == Len(a) <= Len(b) /\ SubSeq(b, 1, Len(a)) = a

\* C16: no step removes a file, and the content a file has before a step is
\* a prefix of its content after the step.
C16_AppendOnly ==
  [][\A f \in DOMAIN files :
       /\ f \in DOMAIN files'
       /\ IsPrefix(files[f], files'[f])]_vars

\* the file that existed before the process started has kept its lines and
\* gained a row of this run
C16_Witness ==
  /\ existsSync(files, getLogFilename(0))
  /\ Len(files[getLogFilename(0)]) >= 3
  /\ SubSeq(files[getLogFilename(0)], 1, 2) = <<Header, OldRow>>

\* the row timestamp (year, month, day, hour) as one number
TimestampValue(ts) ==
  ((ts[1] * 100 + ts[2][1] * 10 + ts[2][2]) * 100 + ts[3][1] * 10 + ts[3][2]) * 100
    + ts[4][1] * 10 + ts[4][2]

\* C17 as stated: a tick begins only when the tick before it is no longer in
\* flight, and down every file the rows of this run are in the order of
\* their ticks, with timestamps that never decrease.
C17_TicksTotallyOrdered ==
  /\ \A tick \in logPending : tick.tick = logTicks
  /\ \A f \in DOMAIN files : \A i, j \in DOMAIN files[f] :
       (i < j /\ files[f][i].kind = "row" /\ files[f][i].tick > 0
              /\ files[f][j].kind = "row") =>
         /\ files[f][i].tick < files[f][j].tick
         /\ TimestampValue(files[f][i].timestamp) <= TimestampValue(files[f][j].timestamp)

\* C17, amended: ticks overlap; the row of a tick is appended at the end of
\* its file when the tick's read completes, and carries the timestamp taken
\* at the tick's start, so the rows of a file are in the order in which
\* their reads completed.
C17_RowsInCompletionOrder ==
  [][\A tick \in logPending \ logPending' :
       \/ files' = files
       \/ /\ files'[tick.filename] =
               Append(files[tick.filename],
                      files'[tick.filename][Len(files'[tick.filename])])
          /\ files'[tick.filename][Len(files'[tick.filename])].tick = tick.tick
          /\ files'[tick.filename][Len(files'[tick.filename])].timestamp
               = tick.timestamp]_vars

\* the row of a later tick, with a later timestamp, stands above the row of
\* an earlier tick
C17_Witness ==
  \E f \in DOMAIN files : \E i, j \in DOMAIN files[f] :
    /\ i < j
    /\ files[f][j].kind = "row"
    /\ files[f][j].tick > 0
    /\ files[f][i].tick > files[f][j].tick
    /\ TimestampValue(files[f][i].timestamp) > TimestampValue(files[f][j].timestamp)

\* positions (file, line) that hold a row appended in this run
RunRows(fs) ==
  {p \in UNION {{<<f, i>> : i \in DOMAIN fs[f]} : f \in DOMAIN fs} :
     fs[p[1]][p[2]].kind = "row" /\ fs[p[1]][p[2]].tick > 0}

\* C18: the rows appended never outnumber the ticks started; a step in which
\* a tick fails changes no file; the step in which a tick's read completes
\* without failure adds exactly one row; the start of a tick adds none.
C18_OneRowPerTick ==
  /\ [](Cardinality(RunRows(files)) <= logTicks)
  /\ [][/\ (logErrors' > logErrors => files' = files)
        /\ (logPending' # logPending /\ logTicks' = logTicks /\ logErrors' = logErrors =>
              Cardinality(RunRows(files')) = Cardinality(RunRows(files)) + 1)
        /\ (logTicks' > logTicks => RunRows(files') = RunRows(files))]_vars

\* one tick has failed after creating its file, another has appended its row
C18_Witness ==
  /\ logErrors >= 1
  /\ logPending = {}
  /\ Cardinality(RunRows(files)) = 1
  /\ \E f \in DOMAIN files : files[f] = <<Header>>

\* C19: the date and hour of every row's timestamp are the date and hour in
\* the name of the file that holds the row.
C19_RowInItsBucket ==
  \A f \in DOMAIN files : \A i \in DOMAIN files[f] :
    files[f][i].kind = "row" => files[f][i].timestamp = f

\* C20: the keep-alive interval is strictly smaller than the idle timeout of
\* the server's sessions, and while the process runs with its keep-alive
\* reads succeeding, the time since the last request on the session stays
\* below that timeout.
C20_SessionNeverIdle ==
  /\ KEEP_ALIVE_INTERVAL < maxInactiveSessionLifetime
  /\ (pc = "running" => idle < maxInactiveSessionLifetime)

\* two pings have succeeded and a full interval has passed since the last
C20_Witness ==
  /\ pc = "running"
  /\ pingCounter >= 2
  /\ idle = KEEP_ALIVE_INTERVAL

====
